---- MODULE Spec2Model ----
(***************************************************************************)
(* Pool resolution pipeline of the Swiv backend: the mirror store rows of   *)
(* pools and bets, the HTTP handlers that drive a pool through its six      *)
(* external resolution steps, the cron job that closes expired pools and    *)
(* the claim of a bet's reward.  Every await of a handler is a step of its  *)
(* own, so that requests interleave exactly where the code suspends.        *)
(***************************************************************************)
EXTENDS Integers, Sequences, FiniteSets, TLC

\* ---------------------------------------------------------------- bounds
MaxTime == 3          \* the clock runs over 1..MaxTime (unix seconds)
MaxPools == 1         \* mirror pool rows
MaxBets == 1          \* mirror bet rows
MaxRuns == 2          \* resolvePool requests
MaxClaims == 2        \* claimReward requests
MaxReward == 1        \* req.body.rewardAmount of a claim: 0..MaxReward
MaxRetries == 4       \* the retries argument of getAuthTokenWithRetry: 0..MaxRetries
MaxPrice == 2         \* the oracle's price: 1..MaxPrice
MaxWeight == 1        \* the weight the enclave computes for a bet: 1..MaxWeight
MaxCronPools == 2     \* mirror pool rows when the job's list is looked at
MaxPdaPoolId == 2     \* the pool ids a handle is derived for: see PdaPoolIds
MaxCreates == 2       \* createPool requests
MaxPrediction == 1    \* req.body.minPrediction, maxPrediction: 0..MaxPrediction
MaxLegacyPreds == 2   \* prediction rows of the part_002 build

\* ------------------------------------------------------ program constants
MsPerSec == 1000      \* new Date(pool.end_time * 1000), Date.now() / 1000
DefaultRetries == 3   \* getAuthTokenWithRetry(..., retries = 3)
BackoffMs == 1000     \* await sleep(1000 * (i + 1))

PoolIds == 1..MaxPools
BetIds == 1..MaxBets
RunIds == 1..MaxRuns
ClaimIds == 1..MaxClaims
Times == 1..MaxTime
Wallets == {"alice", "bob"}      \* req.body.userWallet of a claim
Depositors == {"alice"}          \* req.body.userWallet of a bet

\* export type PoolStatus = 'active' | 'resolved' | 'settled' | 'closed'
PoolStatus == <<"active", "resolved", "settled", "closed">>

\* export type BetStatus = 'initialized' | 'active' | 'calculated' | 'claimed'
BetStatus == <<"initialized", "active", "calculated", "claimed">>

\* The position of a status in its declared order.
Rank(order, s) == CHOOSE i \in 1..Len(order) : order[i] = s

\* A slip in completePoolResolution: the pool is undelegated before its bets.
ResolutionStepsSwapped ==
    <<"delegatePool", "resolvePool", "batchCalculateWeights",
      "undelegatePool", "batchUndelegateBets", "finalizeWeights">>

\* The external calls of completePoolResolution, in the order it awaits them.
ResolutionSteps ==
    <<"delegatePool", "resolvePool", "batchCalculateWeights",
      "batchUndelegateBets", "undelegatePool", "finalizeWeights">>

NumSteps == Len(ResolutionSteps)

\* req.body.finalOutcome: a number, or absent
Undefined == -1
Outcomes == {7}

VARIABLES
    now,          \* Math.floor(Date.now() / 1000)
    pools,        \* mirror table 'pools', by row id
    bets,         \* mirror table 'predictions', by row id
    chain,        \* the on-chain pool accounts, by pool_id
    confirmed,    \* per pool: the steps the ledger / enclave has confirmed
    runs,         \* the resolvePool requests
    fin,          \* the finalizePool request
    cron,         \* the pool finalization job
    claims,       \* the claimReward requests
    hist,         \* history: what was observed, for the properties only
    auth,         \* the call of getAuthTokenWithRetry in progress
    tee,          \* what was sent to the enclave endpoint: operation, token attached
    session,      \* the enclave session token of the authority, as the enclave sees it
    pda,          \* the pool handles the last two operations of ContractService addressed
    creates,      \* the createPool requests, every await a step
    place,        \* a placeBet request, every await a step
    legacy        \* the build of part_002: its pools table and its requests

vars == <<now, pools, bets, chain, confirmed, runs, fin, cron, claims, hist,
          auth, tee, session, pda, creates, place, legacy>>

\* ------------------------------------------------------------ mirror rows
NoPool ==
    [exists |-> FALSE, pool_id |-> 0, start_time |-> 0, end_time |-> 0,
     status |-> "active", is_resolved |-> FALSE, resolution_target |-> 0,
     min_prediction |-> 0, max_prediction |-> 0,
     total_weight |-> 0, weight_finalized |-> FALSE, last_synced_at |-> FALSE]

\* PoolModel.create: the inserted row.  last_synced_at (here: whether a write of
\* the program has set it) is not among the inserted columns.
PoolCreate(poolId, start, end, min, max) ==
    [exists |-> TRUE, pool_id |-> poolId, start_time |-> start, end_time |-> end,
     status |-> "active", is_resolved |-> FALSE, resolution_target |-> 0,
     min_prediction |-> min, max_prediction |-> max,
     total_weight |-> 0, weight_finalized |-> FALSE, last_synced_at |-> FALSE]

\* PoolModel.updateStatus
PoolUpdateStatus(row, status) ==
    [row EXCEPT !.status = status, !.last_synced_at = TRUE]

\* PoolModel.updateResolution
PoolUpdateResolution(row, target, status) ==
    [row EXCEPT !.resolution_target = target, !.is_resolved = TRUE, !.status = status,
                !.last_synced_at = TRUE]

\* PoolModel.finalizePool
PoolFinalize(row) ==
    [row EXCEPT !.weight_finalized = TRUE, !.status = "settled", !.last_synced_at = TRUE]

\* PoolModel.syncFromChain
PoolSyncFromChain(row, chainData) ==
    [row EXCEPT !.is_resolved = chainData.isResolved,
                !.total_weight = chainData.totalWeight,
                !.weight_finalized = chainData.weightFinalized,
                !.last_synced_at = TRUE]

NoBet ==
    [exists |-> FALSE, pool_id |-> 0, user_wallet |-> "alice", bet_pubkey |-> FALSE,
     calculated_weight |-> 0, status |-> "initialized", reward |-> 0, claim_tx |-> 0,
     last_synced_at |-> FALSE]

\* PredictionModel.create: the inserted row (bet_pubkey: whether it is non-empty).
\* last_synced_at is not among the inserted columns.
BetCreate(poolId, wallet, pubkey) ==
    [exists |-> TRUE, pool_id |-> poolId, user_wallet |-> wallet, bet_pubkey |-> pubkey,
     calculated_weight |-> 0, status |-> "initialized", reward |-> 0, claim_tx |-> 0,
     last_synced_at |-> FALSE]

\* PredictionModel.updateStatus / updateBetStatus
BetUpdateStatus(row, status) ==
    [row EXCEPT !.status = status, !.last_synced_at = TRUE]

\* PredictionModel.updateWithCalculation, as far as the modelled columns go
BetUpdateWithCalculation(row, calculatedWeight, status) ==
    [row EXCEPT !.calculated_weight = calculatedWeight, !.status = status,
                !.last_synced_at = TRUE]

\* PredictionModel.findByPoolId: the ids of the rows of a pool
BetsOfPool(poolId) == {b \in BetIds : bets[b].exists /\ bets[b].pool_id = poolId}

\* PoolModel.findByPoolId: .single() answers a row only when exactly one matches
PoolsByPoolId(poolId) ==
    {p \in DOMAIN pools : pools[p].exists /\ pools[p].pool_id = poolId}

\* PoolModel.findExpiredPools
FindExpiredPools ==
    {p \in DOMAIN pools : pools[p].exists /\ pools[p].status = "active"
                                          /\ pools[p].end_time < now}

\* The on-chain pool accounts are numbered by protocol.totalPools: 0, 1, ...
ChainIds == 0..(MaxPools - 1)

\* The weights the enclave computes
Weights == 1..MaxWeight

\* An on-chain pool account, delegated when its owner is the enclave validator,
\* with the accounts of its bets: weight is a bet's calculatedWeight (0: none
\* computed), returned the bets whose accounts are back in the ledger's ownership.
NoChain ==
    [exists |-> FALSE, delegated |-> FALSE, isResolved |-> FALSE,
     weight |-> [b \in BetIds |-> 0], totalWeight |-> 0, returned |-> {},
     weightFinalized |-> FALSE]

\* protocolData.totalPools: the pool program numbers the accounts it creates
TotalPools == Cardinality({c \in DOMAIN chain : chain[c].exists})

Min(S) == CHOOSE x \in S : \A y \in S : x <= y

\* ------------------------------------------------------------- requests
\* A resolvePool request.  issued, acks, rejected, writes and late only record
\* what the request did: the calls it submitted, the confirmations it got, the
\* call that was rejected, its mirror writes, and whether it arrived while
\* another request for the pool was between its first and its last call.
IdleRun ==
    [pc |-> "idle", variant |-> "part_000", pool |-> 0, poolId |-> 0, finalOutcome |-> 0,
     preds |-> {}, todo |-> {}, issued |-> <<>>, acks |-> 0, rejected |-> 0,
     writes |-> 0, late |-> FALSE, resp |-> "none"]

IdleFin == [pc |-> "idle", pool |-> 0, poolId |-> 0, resp |-> "none"]

\* The job's handler: the pools it listed, those still to come, the one being
\* closed, and for the properties the pools it called closePool for, in order,
\* and those for which closePool threw.
IdleCron ==
    [pc |-> "idle", listed |-> {}, todo |-> {}, pool |-> 0, attempts |-> <<>>,
     failed |-> {}]

IdleClaim ==
    [pc |-> "idle", bet |-> 0, userWallet |-> "alice", rewardAmount |-> 0,
     claimTxSignature |-> 0, resp |-> "none"]

\* A call of getAuthTokenWithRetry: the loop index, the attempts made so far and
\* the delays slept between them.
IdleAuth ==
    [pc |-> "idle", caller |-> "direct", retries |-> 0, i |-> 0, attempts |-> 0,
     delays |-> <<>>]

\* The authority's session with the enclave: its token ("none", "valid" or
\* "expired"), and of the last enclave operation of ContractService whether a
\* valid token existed when it began and whether it asked for a new one.
NoSession == [token |-> "none", held |-> FALSE, handshake |-> FALSE]

\* req.body of createPool.  A field that is absent (or falsy) is 0; startTime and
\* endTime are instants counted in half seconds, or a string that is no date.
CreateIds == 1..MaxCreates
Absent == 0
NaN == -2
HalvesPerSec == 2
Instants == 1..(HalvesPerSec * MaxTime + 1)
DateInputs == {Absent, NaN} \cup Instants
Predictions == {Undefined} \cup 0..MaxPrediction

\* A createPool request: its body, the time it arrived at, the pool id it read
\* from the protocol's counter and its answer.
IdleCreate ==
    [pc |-> "idle", name |-> FALSE, startTime |-> Absent, endTime |-> Absent,
     minPrediction |-> Undefined, maxPrediction |-> Undefined, at |-> 0,
     poolId |-> Undefined, resp |-> "none"]

\* A placeBet request: the row findByPoolId answered, and the body's fields.
IdlePlace ==
    [pc |-> "idle", pool |-> 0, poolId |-> 0, userWallet |-> "alice",
     bet_pubkey |-> FALSE, resp |-> "none"]

\* An operation of ContractService and the pool handle it addressed.
NoPda == [op |-> "none", instance |-> "none", poolId |-> 0, pool |-> <<>>]

\* part_010: a row of the pools table of the part_002 build.
LegacyNoPool ==
    [exists |-> FALSE, target_price |-> 0, end_time |-> 0, status |-> "active",
     final_price |-> 0]

\* A row of the predictions table of the part_002 build; status is 'pending'
\* until settlePredictions writes 'won' or 'lost'.  The reward is counted in
\* tenths.
LegacyPredIds == 1..MaxLegacyPreds
LegacyAmount == 10
LegacyNoPrediction ==
    [exists |-> FALSE, pool_id |-> 0, direction |-> "up", amount |-> 0,
     status |-> "pending", reward |-> 0]

\* A request of the part_002 build; todo is what is left of the list
\* settlePredictions walks.
IdleLegacy == [pc |-> "idle", pool |-> 0, finalPrice |-> 0, todo |-> {}, resp |-> "none"]

Init ==
    /\ now = 1
    /\ pools = [p \in PoolIds |-> NoPool]
    /\ bets = [b \in BetIds |-> NoBet]
    /\ chain = [c \in ChainIds |-> NoChain]
    /\ confirmed = [c \in ChainIds |-> {}]
    /\ runs = [r \in RunIds |-> IdleRun]
    /\ fin = IdleFin
    /\ cron = IdleCron
    /\ claims = [c \in ClaimIds |-> IdleClaim]
    /\ hist = [overlapped |-> [c \in ChainIds |-> FALSE],
               placeBet |-> [resp |-> "none", bet |-> 0, fetched |-> FALSE],
               getPoolById |-> [resp |-> "none", id |-> 0, fetched |-> FALSE,
                                is_resolved |-> FALSE]]
    /\ auth = IdleAuth
    /\ tee = {}
    /\ session = NoSession
    /\ pda = [prev |-> NoPda, last |-> NoPda]
    /\ creates = [q \in CreateIds |-> IdleCreate]
    /\ place = IdlePlace
    /\ legacy = [pools |-> [p \in PoolIds |-> LegacyNoPool],
                 preds |-> [b \in LegacyPredIds |-> LegacyNoPrediction],
                 create |-> IdleLegacy, fin |-> IdleLegacy]

\* The clock: Date.now() only grows.
Tick ==
    /\ now < MaxTime
    /\ now' = now + 1
    /\ UNCHANGED <<place, creates, pda, session, pools, bets, chain, confirmed, runs, fin, cron, claims, hist, auth, tee, legacy>>

\* PoolsController.createPool: the request's validation (400 when it fails).
CreatePoolValid(startTimestamp, endTimestamp) ==
    /\ ~(startTimestamp >= endTimestamp)
    /\ ~(endTimestamp <= now)

\* PoolsController.createPool with ContractService.createPool, the request taken
\* as one step (name given, minPrediction 0, maxPrediction 1): the pool id is the
\* protocol's pool counter, the mirror row is inserted after the ledger confirmed.
CreatePool(startTimestamp, endTimestamp, ledgerOk) ==
    /\ CreatePoolValid(startTimestamp, endTimestamp)
    /\ TotalPools \in DOMAIN chain
    /\ \E p \in DOMAIN pools : ~pools[p].exists
    /\ LET poolId == TotalPools
           row == Min({p \in DOMAIN pools : ~pools[p].exists})
       IN  IF ledgerOk
           THEN /\ chain' = [chain EXCEPT ![poolId] = [NoChain EXCEPT !.exists = TRUE]]
                /\ pools' = [pools EXCEPT ![row] =
                                PoolCreate(poolId, startTimestamp, endTimestamp, 0, 1)]
           ELSE UNCHANGED <<chain, pools>>
    /\ UNCHANGED <<place, creates, pda, session, now, bets, confirmed, runs, fin, cron, claims, hist, auth, tee, legacy>>

\* Math.floor(new Date(t).getTime() / 1000): getTime() of an invalid date is NaN.
ToTimestamp(t) == IF t = NaN THEN NaN ELSE t \div HalvesPerSec

\* a >= b and a <= b of JavaScript: false when an operand is NaN.
JsGe(a, b) == a # NaN /\ b # NaN /\ a >= b
JsLe(a, b) == a # NaN /\ b # NaN /\ a <= b

\* PoolsController.createPool: the checks before the on-chain call, in the code's
\* order: the error, or "pass".  at is Math.floor(Date.now() / 1000).
CreatePoolCheck(name, startTime, endTime, minPrediction, maxPrediction, at) ==
    IF ~name \/ startTime = Absent \/ endTime = Absent
    THEN "400 Missing required fields: name, startTime, endTime"
    ELSE IF minPrediction = Undefined \/ maxPrediction = Undefined
    THEN "400 Missing required fields: minPrediction, maxPrediction"
    ELSE IF minPrediction >= maxPrediction
    THEN "400 minPrediction must be less than maxPrediction"
    ELSE IF JsGe(ToTimestamp(startTime), ToTimestamp(endTime))
    THEN "400 Start time must be before end time"
    ELSE IF JsLe(ToTimestamp(endTime), at) THEN "400 End time must be in the future"
    ELSE "pass"

\* The request arrives: the checks, all of them before the first await.
CreatePoolBegin(q, name, startTime, endTime, minPrediction, maxPrediction) ==
    /\ creates[q].pc = "idle"
    /\ \A r \in CreateIds : r < q => creates[r].pc # "idle"   \* numbered as they arrive
    /\ LET check == CreatePoolCheck(name, startTime, endTime, minPrediction,
                                    maxPrediction, now)
       IN  creates' = [creates EXCEPT ![q] =
               [pc |-> IF check = "pass" THEN "fetch" ELSE "done",
                name |-> name, startTime |-> startTime, endTime |-> endTime,
                minPrediction |-> minPrediction, maxPrediction |-> maxPrediction,
                at |-> now, poolId |-> Undefined,
                resp |-> IF check = "pass" THEN "none" ELSE check]]
    /\ UNCHANGED <<place, pda, session, now, pools, bets, chain, confirmed, runs, fin, cron, claims,
                   hist, auth, tee, legacy>>

\* ContractService.createPool: program.account.protocol.fetch(protocol), which
\* the ledger answers or fails (ok); poolId = protocolData.totalPools.toNumber().
CreatePoolFetch(q, ok) ==
    /\ creates[q].pc = "fetch"
    /\ TotalPools \in DOMAIN chain
    /\ creates' = [creates EXCEPT ![q] =
           IF ok THEN [@ EXCEPT !.pc = "submit", !.poolId = TotalPools]
           ELSE [@ EXCEPT !.pc = "done",
                          !.resp = "500 Failed to create pool on blockchain"]]
    /\ UNCHANGED <<place, pda, session, now, pools, bets, chain, confirmed, runs, fin, cron, claims,
                   hist, auth, tee, legacy>>

\* The ledger confirms the createPool transaction or rejects it; it rejects the
\* creation of a pool account that exists.
LedgerCreates(acct, ledgerOk) == ledgerOk /\ ~acct.exists

\* A slip in the handler: the error of contractService.createPool is logged and
\* the row is inserted all the same.
AfterCreatePoolSwallow(req, created) == [req EXCEPT !.pc = "insert"]

\* The handler after contractService.createPool returned or threw: its catch
\* turns a throw into a 500, and the row is not inserted.
AfterCreatePool(req, created) ==
    IF created THEN [req EXCEPT !.pc = "insert"]
    ELSE [req EXCEPT !.pc = "done", !.resp = "500 Failed to create pool on blockchain"]

\* ContractService.createPool: the transaction is built (new BN(NaN) throws) and
\* submitted.
CreatePoolSubmit(q, ledgerOk) ==
    /\ creates[q].pc = "submit"
    /\ LET c == creates[q].poolId
           built == /\ ToTimestamp(creates[q].startTime) # NaN
                    /\ ToTimestamp(creates[q].endTime) # NaN
           created == built /\ LedgerCreates(chain[c], ledgerOk)
       IN  /\ chain' = IF created
                       THEN [chain EXCEPT ![c] = [NoChain EXCEPT !.exists = TRUE]]
                       ELSE chain
           /\ creates' = [creates EXCEPT ![q] = AfterCreatePool(@, created)]
    /\ UNCHANGED <<place, pda, session, now, pools, bets, confirmed, runs, fin, cron, claims,
                   hist, auth, tee, legacy>>

\* PoolModel.create, which the store takes or fails (ok), and the answer.
CreatePoolInsert(q, ok) ==
    /\ creates[q].pc = "insert"
    /\ \E p \in DOMAIN pools : ~pools[p].exists
    /\ LET row == Min({p \in DOMAIN pools : ~pools[p].exists})
       IN  pools' = IF ok
                    THEN [pools EXCEPT ![row] =
                             PoolCreate(creates[q].poolId,
                                        ToTimestamp(creates[q].startTime),
                                        ToTimestamp(creates[q].endTime),
                                        creates[q].minPrediction, creates[q].maxPrediction)]
                    ELSE pools
    /\ creates' = [creates EXCEPT
           ![q].pc = "done",
           ![q].resp = IF ok THEN "201 Pool created successfully on blockchain and database"
                       ELSE "500"]
    /\ UNCHANGED <<place, pda, session, now, bets, chain, confirmed, runs, fin, cron, claims,
                   hist, auth, tee, legacy>>

\* PredictionsController.placeBet: the pool must exist and be in its window.
PlaceBetValid(p) ==
    /\ pools[p].exists
    /\ ~(now < pools[p].start_time \/ now > pools[p].end_time)

\* placeBet hands syncFromChain an object with vaultBalance and totalParticipants
\* only: of the modelled columns the update sets last_synced_at and no other.
PlaceBetSyncFromChain(row) == [row EXCEPT !.last_synced_at = TRUE]

\* A slip in the handler: the try block around the fetch is missing, a failed
\* fetch ends the request.
PlaceBetNoCatch(p, userWallet, pubkey, fetched, stored) ==
    /\ PlaceBetValid(p)
    /\ \E b \in BetIds : ~bets[b].exists
    /\ ~fetched => ~stored
    /\ pools' = IF fetched /\ stored
                THEN [pools EXCEPT ![p] = PlaceBetSyncFromChain(@)] ELSE pools
    /\ LET b == Min({x \in BetIds : ~bets[x].exists})
       IN  bets' = IF fetched
                   THEN [bets EXCEPT ![b] = BetCreate(pools[p].pool_id, userWallet, pubkey)]
                   ELSE bets
    /\ hist' = [hist EXCEPT !.placeBet =
                   [resp |-> IF fetched THEN "201 Bet placed successfully" ELSE "500",
                    bet |-> Min({x \in BetIds : ~bets[x].exists}), fetched |-> fetched]]
    /\ UNCHANGED <<place, creates, pda, session, now, chain, confirmed, runs, fin, cron, claims, auth, tee, legacy>>

\* The handler: contractService.getPool answers the account or null (fetched);
\* with null the argument of syncFromChain throws, with an account the store takes
\* the update or refuses it (stored); the catch logs either failure and the bet
\* row is inserted.
PlaceBet(p, userWallet, pubkey, fetched, stored) ==
    /\ PlaceBetValid(p)
    /\ \E b \in BetIds : ~bets[b].exists
    /\ ~fetched => ~stored
    /\ pools' = IF fetched /\ stored
                THEN [pools EXCEPT ![p] = PlaceBetSyncFromChain(@)] ELSE pools
    /\ LET b == Min({x \in BetIds : ~bets[x].exists})
       IN  bets' = [bets EXCEPT ![b] = BetCreate(pools[p].pool_id, userWallet, pubkey)]
    /\ hist' = [hist EXCEPT !.placeBet =
                   [resp |-> "201 Bet placed successfully",
                    bet |-> Min({x \in BetIds : ~bets[x].exists}), fetched |-> fetched]]
    /\ UNCHANGED <<place, creates, pda, session, now, chain, confirmed, runs, fin, cron, claims, auth, tee, legacy>>

\* PredictionsController.placeBet: the checks in the code's order, found the rows
\* findByPoolId matched (.single() answers a row when it is the only one), at
\* Math.floor(Date.now() / 1000).  !poolId is true of the pool id 0.
PlaceBetCheck(poolId, found, at) ==
    IF poolId = Absent THEN "400 Missing required fields: poolId, userWallet, deposit"
    ELSE IF Cardinality(found) # 1 THEN "404 Pool not found"
    ELSE IF at < pools[Min(found)].start_time \/ at > pools[Min(found)].end_time
    THEN "400 Pool is not in active period"
    ELSE "pass"

\* The request arrives: PoolModel.findByPoolId and the checks.
PlaceBetBegin(poolId, userWallet, pubkey) ==
    /\ place.pc = "idle"
    /\ LET found == PoolsByPoolId(poolId)
           check == PlaceBetCheck(poolId, found, now)
       IN  place' = [pc |-> IF check = "pass" THEN "sync" ELSE "done",
                     pool |-> IF check = "pass" THEN Min(found) ELSE 0,
                     poolId |-> poolId, userWallet |-> userWallet, bet_pubkey |-> pubkey,
                     resp |-> IF check = "pass" THEN "none" ELSE check]
    /\ UNCHANGED <<creates, pda, session, now, pools, bets, chain, confirmed, runs, fin, cron,
                   claims, hist, auth, tee, legacy>>

\* contractService.getPool and PoolModel.syncFromChain inside the try block:
\* the fetch answers an account or null, the store takes the update or fails.
PlaceBetSync(fetched, stored) ==
    /\ place.pc = "sync"
    /\ ~fetched => ~stored
    /\ pools' = IF fetched /\ stored
                THEN [pools EXCEPT ![place.pool] = PlaceBetSyncFromChain(@)] ELSE pools
    /\ place' = [place EXCEPT !.pc = "insert"]
    /\ UNCHANGED <<creates, pda, session, now, bets, chain, confirmed, runs, fin, cron,
                   claims, hist, auth, tee, legacy>>

\* PredictionModel.create, which the store takes or fails (ok), and the answer.
PlaceBetInsert(ok) ==
    /\ place.pc = "insert"
    /\ \E b \in BetIds : ~bets[b].exists
    /\ LET b == Min({x \in BetIds : ~bets[x].exists})
       IN  bets' = IF ok
                   THEN [bets EXCEPT ![b] = BetCreate(pools[place.pool].pool_id,
                                                      place.userWallet, place.bet_pubkey)]
                   ELSE bets
    /\ place' = [place EXCEPT !.pc = "done",
                              !.resp = IF ok THEN "201 Bet placed successfully" ELSE "500"]
    /\ UNCHANGED <<creates, pda, session, now, pools, chain, confirmed, runs, fin, cron,
                   claims, hist, auth, tee, legacy>>

\* PoolsController.getPoolById: the row, with is_resolved of the on-chain account
\* when contractService.getPool answered one.  Nothing is written.
GetPoolById(id, fetched) ==
    /\ hist' = [hist EXCEPT !.getPoolById =
                   IF ~pools[id].exists
                   THEN [resp |-> "404 Pool not found", id |-> id, fetched |-> FALSE,
                         is_resolved |-> FALSE]
                   ELSE [resp |-> "200 Pool retrieved successfully", id |-> id,
                         fetched |-> fetched,
                         is_resolved |-> IF fetched THEN chain[pools[id].pool_id].isResolved
                                         ELSE pools[id].is_resolved]]
    /\ UNCHANGED <<place, creates, pda, session, now, pools, bets, chain, confirmed, runs, fin, cron, claims,
                   auth, tee, legacy>>

\* PredictionsController.updateBetPrediction: only an initialized bet, to active.
UpdateBetPrediction(b) ==
    /\ bets[b].exists
    /\ bets[b].status = "initialized"
    /\ bets' = [bets EXCEPT ![b] = BetUpdateWithCalculation(bets[b], 0, "active")]
    /\ UNCHANGED <<place, creates, pda, session, now, pools, chain, confirmed, runs, fin, cron, claims, hist, auth, tee, legacy>>

\* ------------------------------------------------ the pool finalization job
\* startPoolFinalizationJob: a tick of the job lists the expired pools.  When
\* findExpiredPools throws, the handler's catch logs it and nothing has changed.
CronTick ==
    /\ cron.pc = "idle"
    /\ FindExpiredPools # {}
    /\ cron' = [IdleCron EXCEPT !.pc = "next", !.listed = FindExpiredPools,
                                !.todo = FindExpiredPools]
    /\ UNCHANGED <<place, creates, pda, session, now, pools, bets, chain, confirmed, runs, fin, claims, hist, auth, tee, legacy>>

\* A slip in the job's loop: the try block around closePool is missing, the
\* error ends the handler.
AfterClosePoolNoCatch(c, threw) ==
    [c EXCEPT !.pc = "next", !.pool = 0,
              !.todo = IF threw THEN {} ELSE @,
              !.failed = IF threw THEN @ \cup {c.attempts[Len(c.attempts)]} ELSE @]

\* The job's loop after closePool returned or threw: the catch logs the error
\* and the loop goes on with the next pool.
AfterClosePool(c, threw) ==
    [c EXCEPT !.pc = "next", !.pool = 0,
              !.failed = IF threw THEN @ \cup {c.attempts[Len(c.attempts)]} ELSE @]

\* The loop calls PoolFinalizationService.closePool for the next pool of its
\* list: findByPoolId, which the store answers or fails (ok), and the two throws.
ClosePoolRead(ok) ==
    /\ cron.pc = "next"
    /\ cron.todo # {}
    /\ LET listed == Min(cron.todo)
           found == PoolsByPoolId(pools[listed].pool_id)
           called == [cron EXCEPT !.todo = @ \ {listed}, !.attempts = Append(@, listed)]
       IN  IF ok /\ Cardinality(found) = 1 /\ pools[Min(found)].status # "closed"
           THEN cron' = [called EXCEPT !.pc = "close", !.pool = Min(found)]
           ELSE cron' = AfterClosePool(called, TRUE)
    /\ UNCHANGED <<place, creates, pda, session, now, pools, bets, chain, confirmed, runs, fin, claims, hist, auth, tee, legacy>>

\* PoolFinalizationService.closePool: PoolModel.updateStatus(pool.id, 'closed'),
\* which the store takes or fails (ok).
ClosePoolWrite(ok) ==
    /\ cron.pc = "close"
    /\ pools' = IF ok
                THEN [pools EXCEPT ![cron.pool] = PoolUpdateStatus(pools[cron.pool], "closed")]
                ELSE pools
    /\ cron' = AfterClosePool(cron, ~ok)
    /\ UNCHANGED <<place, creates, pda, session, now, bets, chain, confirmed, runs, fin, claims, hist, auth, tee, legacy>>

\* The job's handler returns when its loop is through.
CronDone ==
    /\ cron.pc = "next"
    /\ cron.todo = {}
    /\ cron' = IdleCron
    /\ UNCHANGED <<place, creates, pda, session, now, pools, bets, chain, confirmed, runs, fin, claims, hist, auth, tee, legacy>>

\* ------------------------------------------------ PoolsController.resolvePool
\* The repository holds the handler twice: src/unnamed/part_000 and
\* src/src/controllers/pools.controller.ts.  They differ in the end-time check,
\* in the bet handles they pass on and in the bet rows they update.

\* part_000: new Date(pool.end_time * 1000).getTime() > Date.now().  Date.now() is
\* now * 1000 plus a fraction below 1000, which does not change the comparison.
EndTimeNotReached(row) == row.end_time * MsPerSec > now * MsPerSec

\* pools.controller.ts: new Date(pool.end_time) > new Date(): the stored unix
\* seconds are read as milliseconds since the epoch.
EndTimeNotReachedDate(row) == row.end_time > now * MsPerSec

\* The checks before the try block, in the code's order: the error, or "pass".
ResolvePoolCheck(variant, row, finalOutcome) ==
    IF finalOutcome = Undefined THEN "400 finalOutcome is required"
    ELSE IF ~row.exists THEN "404 Pool not found"
    ELSE IF (IF variant = "part_000" THEN EndTimeNotReached(row)
                                     ELSE EndTimeNotReachedDate(row))
         THEN "400 Pool end time has not been reached yet"
    ELSE IF row.is_resolved THEN "400 Pool already resolved"
    ELSE "pass"

\* A run that passed the checks and has not answered yet.
Running(r) == runs[r].pc \notin {"idle", "done"}

\* A run between its first and its last external call.
InFlight(r) == runs[r].pc = "call" /\ runs[r].issued # <<>>

\* The request arrives: PoolModel.findById and the checks.
ResolvePoolBegin(r, variant, id, finalOutcome) ==
    /\ runs[r].pc = "idle"
    /\ \A q \in RunIds : q < r => runs[q].pc # "idle"     \* numbered as they arrive
    /\ LET check == ResolvePoolCheck(variant, pools[id], finalOutcome)
           poolId == pools[id].pool_id
       IN  IF check = "pass"
           THEN /\ runs' = [runs EXCEPT ![r] =
                        [IdleRun EXCEPT !.pc = IF variant = "part_000" THEN "predictions"
                                                                       ELSE "call",
                                        !.variant = variant, !.pool = id,
                                        !.poolId = poolId, !.finalOutcome = finalOutcome,
                                        !.late = \E q \in RunIds :
                                                    InFlight(q) /\ runs[q].poolId = poolId]]
                /\ hist' = [hist EXCEPT !.overlapped[poolId] =
                        @ \/ \E q \in RunIds : Running(q) /\ runs[q].poolId = poolId]
           ELSE /\ runs' = [runs EXCEPT ![r] =
                        [IdleRun EXCEPT !.pc = "done", !.variant = variant, !.pool = id,
                                        !.finalOutcome = finalOutcome, !.resp = check]]
                /\ hist' = hist
    /\ UNCHANGED <<place, creates, pda, session, now, pools, bets, chain, confirmed, fin, cron, claims, auth, tee, legacy>>

\* part_000: PredictionModel.findByPoolId(poolId); the handles passed on are those
\* of the rows with a non-empty bet_pubkey.
ResolvePoolPredictions(r) ==
    /\ runs[r].pc = "predictions"
    /\ runs' = [runs EXCEPT ![r].pc = "call", ![r].preds = BetsOfPool(runs[r].poolId)]
    /\ UNCHANGED <<place, creates, pda, session, now, pools, bets, chain, confirmed, fin, cron, claims, hist, auth, tee, legacy>>

\* What a confirmed step does to the on-chain pool account.
ChainApply(acct, step) ==
    IF step = "delegatePool" THEN [acct EXCEPT !.delegated = TRUE]
    ELSE IF step = "undelegatePool" THEN [acct EXCEPT !.delegated = FALSE]
    ELSE IF step = "resolvePool" THEN [acct EXCEPT !.isResolved = TRUE]
    ELSE IF step = "finalizeWeights" THEN [acct EXCEPT !.weightFinalized = TRUE]
    ELSE acct

\* part_000: the handles passed on as betPubkeys are those of the predictions read
\* whose bet_pubkey is not empty; pools.controller.ts passes an empty list.
BetPubkeys(r) == {b \in runs[r].preds : bets[b].bet_pubkey}

\* The sum of f over the set S
RECURSIVE Sum(_, _)
Sum(f, S) ==
    IF S = {} THEN 0
    ELSE LET x == CHOOSE y \in S : TRUE IN f[x] + Sum(f, S \ {x})

\* What a confirmed step does to the bet accounts it is given: the enclave
\* computes the weight of a bet once and adds it to the pool's total, and
\* batchUndelegateBets returns the accounts to the ledger.
ChainApplyBets(acct, step, batch, weights) ==
    IF step = "batchCalculateWeights"
    THEN LET weight == [b \in BetIds |->
                           IF b \in batch /\ acct.weight[b] = 0 THEN weights[b]
                           ELSE acct.weight[b]]
         IN  [acct EXCEPT !.weight = weight, !.totalWeight = Sum(weight, BetIds)]
    ELSE IF step = "batchUndelegateBets"
    THEN [acct EXCEPT !.returned = @ \cup batch]
    ELSE acct

\* A slip in the error handling: the rejection is logged and the run goes on.
AfterStepSwallow(run, ok) ==
    [run EXCEPT !.acks = IF ok THEN @ + 1 ELSE @,
                !.rejected = IF ok THEN @ ELSE Len(run.issued),
                !.pc = IF Len(run.issued) = NumSteps THEN "updatePool" ELSE "call"]

\* The run after an awaited call returned: the next call, the mirror update
\* after the last one, or the throw, which the handler's catch turns into a 500.
AfterStep(run, ok) ==
    IF ok
    THEN [run EXCEPT !.acks = @ + 1,
                     !.pc = IF Len(run.issued) = NumSteps THEN "updatePool" ELSE "call"]
    ELSE [run EXCEPT !.rejected = Len(run.issued), !.pc = "done",
                     !.resp = "500 Failed to resolve pool on-chain"]

\* ContractService.completePoolResolution: the next external call is submitted
\* and awaited; the ledger or the enclave confirms it or rejects it.
CompletePoolResolutionStep(r, ok) ==
    /\ runs[r].pc = "call"
    /\ LET step == ResolutionSteps[Len(runs[r].issued) + 1]
           c == runs[r].poolId
       IN  /\ runs' = [runs EXCEPT ![r] = AfterStep([@ EXCEPT !.issued = Append(@, step)], ok)]
           /\ IF ok
              THEN /\ confirmed' = [confirmed EXCEPT ![c] = @ \cup {step}]
                   /\ \E weights \in [BetIds -> Weights] :
                         chain' = [chain EXCEPT ![c] =
                             ChainApplyBets(ChainApply(chain[c], step), step,
                                            BetPubkeys(r), weights)]
              ELSE UNCHANGED <<confirmed, chain>>
    /\ UNCHANGED <<place, creates, pda, session, now, pools, bets, fin, cron, claims, hist, auth, tee, legacy>>

\* The awaited batchUndelegateBets throws on a network timeout although the
\* enclave has handed some of the accounts back: the run halts as after any throw.
BatchUndelegateBetsTimeout(r, landed) ==
    /\ runs[r].pc = "call"
    /\ ResolutionSteps[Len(runs[r].issued) + 1] = "batchUndelegateBets"
    /\ landed # {}
    /\ landed \subseteq BetPubkeys(r)
    /\ runs' = [runs EXCEPT ![r] =
                   AfterStep([@ EXCEPT !.issued = Append(@, "batchUndelegateBets")], FALSE)]
    /\ chain' = [chain EXCEPT ![runs[r].poolId].returned = @ \cup landed]
    /\ UNCHANGED <<place, creates, pda, session, now, pools, bets, confirmed, fin, cron, claims, hist, auth, tee, legacy>>

\* PoolModel.updateResolution(id, finalOutcome, "resolved"); then part_000 loops
\* over the predictions it read, pools.controller.ts answers.
ResolvePoolUpdate(r) ==
    /\ runs[r].pc = "updatePool"
    /\ pools' = [pools EXCEPT ![runs[r].pool] =
                    PoolUpdateResolution(pools[runs[r].pool], runs[r].finalOutcome, "resolved")]
    /\ runs' = [runs EXCEPT ![r].writes = @ + 1,
                            ![r].todo = runs[r].preds,
                            ![r].pc = IF runs[r].preds = {} THEN "done" ELSE "updateBets",
                            ![r].resp = IF runs[r].preds = {}
                                        THEN "200 Pool resolved successfully" ELSE "none"]
    /\ UNCHANGED <<place, creates, pda, session, now, bets, chain, confirmed, fin, cron, claims, hist, auth, tee, legacy>>

\* part_000: PredictionModel.updateBetStatus(prediction.id, 'calculated'), one
\* prediction of the list after the other.
ResolvePoolUpdateBet(r) ==
    /\ runs[r].pc = "updateBets"
    /\ LET b == Min(runs[r].todo)
           rest == runs[r].todo \ {b}
       IN  /\ bets' = [bets EXCEPT ![b] = BetUpdateStatus(bets[b], "calculated")]
           /\ runs' = [runs EXCEPT ![r].writes = @ + 1,
                                   ![r].todo = rest,
                                   ![r].pc = IF rest = {} THEN "done" ELSE "updateBets",
                                   ![r].resp = IF rest = {}
                                               THEN "200 Pool resolved successfully"
                                               ELSE "none"]
    /\ UNCHANGED <<place, creates, pda, session, now, pools, chain, confirmed, fin, cron, claims, hist, auth, tee, legacy>>

\* ----------------------------------------------- PoolsController.finalizePool
\* A slip in the handler: the check of is_resolved is missing.
FinalizePoolCheckNoResolved(row) ==
    IF ~row.exists THEN "404 Pool not found"
    ELSE IF row.weight_finalized THEN "400 Pool weights already finalized"
    ELSE "pass"

\* part_000: the checks before the try block.
FinalizePoolCheck(row) ==
    IF ~row.exists THEN "404 Pool not found"
    ELSE IF ~row.is_resolved THEN "400 Pool must be resolved before finalizing weights"
    ELSE IF row.weight_finalized THEN "400 Pool weights already finalized"
    ELSE "pass"

FinalizePoolBegin(id) ==
    /\ fin.pc = "idle"
    /\ LET check == FinalizePoolCheck(pools[id])
       IN  fin' = IF check = "pass"
                  THEN [pc |-> "submit", pool |-> id, poolId |-> pools[id].pool_id,
                        resp |-> "none"]
                  ELSE [pc |-> "done", pool |-> id, poolId |-> 0, resp |-> check]
    /\ UNCHANGED <<place, creates, pda, session, now, pools, bets, chain, confirmed, runs, cron, claims, hist, auth, tee, legacy>>

\* contractService.finalizeWeights is submitted to the ledger and awaited.
FinalizePoolSubmit(ok) ==
    /\ fin.pc = "submit"
    /\ IF ok
       THEN /\ fin' = [fin EXCEPT !.pc = "getPool"]
            /\ confirmed' = [confirmed EXCEPT ![fin.poolId] = @ \cup {"finalizeWeights"}]
            /\ chain' = [chain EXCEPT ![fin.poolId] = ChainApply(@, "finalizeWeights")]
       ELSE /\ fin' = [fin EXCEPT !.pc = "done",
                                  !.resp = "500 Failed to finalize pool on-chain"]
            /\ UNCHANGED <<confirmed, chain>>
    /\ UNCHANGED <<place, creates, pda, session, now, pools, bets, runs, cron, claims, hist, auth, tee, legacy>>

\* contractService.getPool, which answers null when the fetch fails, and
\* PoolModel.syncFromChain(id, onChainPool).
FinalizePoolSync(fetched) ==
    /\ fin.pc = "getPool"
    /\ IF fetched
       THEN /\ pools' = [pools EXCEPT ![fin.pool] = PoolSyncFromChain(@, chain[fin.poolId])]
            /\ fin' = [fin EXCEPT !.pc = "updateStatus"]
       ELSE /\ pools' = pools
            /\ fin' = [fin EXCEPT !.pc = "done",
                                  !.resp = "500 Failed to finalize pool on-chain"]
    /\ UNCHANGED <<place, creates, pda, session, now, bets, chain, confirmed, runs, cron, claims, hist, auth, tee, legacy>>

\* PoolModel.updateStatus(id, 'settled')
FinalizePoolStatus ==
    /\ fin.pc = "updateStatus"
    /\ pools' = [pools EXCEPT ![fin.pool] = PoolUpdateStatus(@, "settled")]
    /\ fin' = [fin EXCEPT !.pc = "finalize"]
    /\ UNCHANGED <<place, creates, pda, session, now, bets, chain, confirmed, runs, cron, claims, hist, auth, tee, legacy>>

\* PoolModel.finalizePool(id)
FinalizePoolMark ==
    /\ fin.pc = "finalize"
    /\ pools' = [pools EXCEPT ![fin.pool] = PoolFinalize(@)]
    /\ fin' = [fin EXCEPT !.pc = "done", !.resp = "200 Pool weights finalized"]
    /\ UNCHANGED <<place, creates, pda, session, now, bets, chain, confirmed, runs, cron, claims, hist, auth, tee, legacy>>

\* -------------------------- PoolResolutionService.resolvePoolComplete (part_007)
\* A slip in the loop: each prediction is moved on by one status.
UpdateBetsAfterResolutionNext(rows, poolId) ==
    [b \in BetIds |->
        IF rows[b].exists /\ rows[b].pool_id = poolId
        THEN BetUpdateStatus(rows[b],
                 BetStatus[Min({Rank(BetStatus, rows[b].status) + 1, Len(BetStatus)})])
        ELSE rows[b]]

\* A slip in the loop: the predictions are marked as paid out.
UpdateBetsAfterResolutionClaimed(rows, poolId) ==
    [b \in BetIds |->
        IF rows[b].exists /\ rows[b].pool_id = poolId
        THEN BetUpdateStatus(rows[b], "claimed") ELSE rows[b]]

\* The loop of updateDatabaseAfterResolution over findByPoolId(pool.pool_id):
\* updateBetStatus(prediction.id, 'calculated'), as a function of the table.
UpdateBetsAfterResolution(rows, poolId) ==
    [b \in BetIds |->
        IF rows[b].exists /\ rows[b].pool_id = poolId
        THEN BetUpdateStatus(rows[b], "calculated") ELSE rows[b]]

\* PoolModel.findByPoolId throws when the pool has no row; then
\* updateDatabaseAfterResolution: updateResolution(.., 'resolved') and every
\* prediction of the pool to 'calculated'.  Nothing else is checked.
UpdateDatabaseAfterResolution(id, finalOutcome) ==
    /\ pools' = [pools EXCEPT ![id] = PoolUpdateResolution(@, finalOutcome, "resolved")]
    /\ bets' = UpdateBetsAfterResolution(bets, pools[id].pool_id)

ResolvePoolComplete(poolId, finalOutcome) ==
    /\ Cardinality(PoolsByPoolId(poolId)) = 1
    /\ UpdateDatabaseAfterResolution(Min(PoolsByPoolId(poolId)), finalOutcome)
    /\ UNCHANGED <<place, creates, pda, session, now, chain, confirmed, runs, fin, cron, claims, hist, auth, tee, legacy>>

\* --------------------------------------- PredictionsController.claimReward
\* A slip in the handler: the two checks of the bet's status are missing.
ClaimRewardCheckNoStatus(row, userWallet, claimTxSignature) ==
    IF claimTxSignature = 0 THEN "400 userWallet and claimTxSignature are required"
    ELSE IF ~row.exists THEN "404 Bet not found"
    ELSE IF row.user_wallet # userWallet THEN "403 Unauthorized"
    ELSE "pass"

\* A slip in the handler: the comparison of the wallets is missing.
ClaimRewardCheckNoWallet(row, userWallet, claimTxSignature) ==
    IF claimTxSignature = 0 THEN "400 userWallet and claimTxSignature are required"
    ELSE IF ~row.exists THEN "404 Bet not found"
    ELSE IF row.status = "claimed" THEN "400 Reward already claimed"
    ELSE IF row.status # "calculated"
         THEN "400 Bet must be calculated before claiming reward"
    ELSE "pass"

\* The checks of the handler in the code's order: the error, or "pass".
\* claimTxSignature is 0 when the request carries none.
ClaimRewardCheck(row, userWallet, claimTxSignature) ==
    IF claimTxSignature = 0 THEN "400 userWallet and claimTxSignature are required"
    ELSE IF ~row.exists THEN "404 Bet not found"
    ELSE IF row.user_wallet # userWallet THEN "403 Unauthorized"
    ELSE IF row.status = "claimed" THEN "400 Reward already claimed"
    ELSE IF row.status # "calculated"
         THEN "400 Bet must be calculated before claiming reward"
    ELSE "pass"

\* The request arrives: PredictionModel.findById and the checks.  A request's
\* signature is its own (its number).
ClaimRewardBegin(c, id, userWallet, hasTx, rewardAmount) ==
    /\ claims[c].pc = "idle"
    /\ \A q \in ClaimIds : q < c => claims[q].pc # "idle"   \* numbered as they arrive
    /\ LET tx == IF hasTx THEN c ELSE 0
           check == ClaimRewardCheck(bets[id], userWallet, tx)
       IN  claims' = [claims EXCEPT ![c] =
               IF check = "pass"
               THEN [IdleClaim EXCEPT !.pc = "write", !.bet = id, !.userWallet = userWallet,
                                      !.rewardAmount = rewardAmount,
                                      !.claimTxSignature = tx]
               ELSE [IdleClaim EXCEPT !.pc = "done", !.bet = id, !.userWallet = userWallet,
                                      !.claimTxSignature = tx, !.resp = check]]
    /\ UNCHANGED <<place, creates, pda, session, now, pools, bets, chain, confirmed, runs, fin, cron, hist, auth, tee, legacy>>

\* PredictionModel.claimReward(id, reward, claimTx): .update(payload).eq('id', id)
BetClaimReward(row, reward, claimTx) ==
    [row EXCEPT !.status = "claimed", !.reward = reward,
                !.claim_tx = IF claimTx # 0 THEN claimTx ELSE @,
                !.last_synced_at = TRUE]

\* The handler's write, PredictionModel.claimReward(id, rewardAmount || 0, tx),
\* and its answer.
ClaimRewardWrite(c) ==
    /\ claims[c].pc = "write"
    /\ LET b == claims[c].bet
       IN  bets' = [bets EXCEPT ![b] =
                   BetClaimReward(bets[b], claims[c].rewardAmount, claims[c].claimTxSignature)]
    /\ claims' = [claims EXCEPT ![c].pc = "done",
                                ![c].resp = "200 Reward claimed successfully"]
    /\ UNCHANGED <<place, creates, pda, session, now, pools, chain, confirmed, runs, fin, cron, hist, auth, tee, legacy>>


\* --------------------------------------------- getAuthTokenWithRetry (part_005)
Retries == 0..MaxRetries

\* A slip in the catch block: the last attempt is taken to be the one at i = retries.
AuthCatchOffByOne(a) ==
    IF a.i = a.retries THEN [a EXCEPT !.pc = "thrown"]
    ELSE [a EXCEPT !.delays = Append(@, BackoffMs * (a.i + 1)), !.i = @ + 1]

\* The catch block: the error of the last attempt is rethrown, after any other
\* attempt the function sleeps 1000 * (i + 1) ms and the loop goes on.
AuthCatch(a) ==
    IF a.i = a.retries - 1 THEN [a EXCEPT !.pc = "thrown"]
    ELSE [a EXCEPT !.delays = Append(@, BackoffMs * (a.i + 1)), !.i = @ + 1]

\* One pass of the loop body: the signed message is posted to <endpoint>/auth; the
\* token is returned, or the attempt throws (signer, fetch or !response.ok).
AuthTry(a, ok) ==
    IF ok THEN [a EXCEPT !.attempts = @ + 1, !.pc = "returned"]
    ELSE AuthCatch([a EXCEPT !.attempts = @ + 1])

\* getAuthTokenWithRetry is called: by placeBetOnTEE with the default retries, or
\* with a retries argument.
GetAuthTokenWithRetryCall(caller, retries) ==
    /\ auth.pc = "idle"
    /\ caller = "placeBetOnTEE" => retries = DefaultRetries
    /\ auth' = [IdleAuth EXCEPT !.pc = "loop", !.caller = caller, !.retries = retries]
    /\ UNCHANGED <<place, creates, pda, session, now, pools, bets, chain, confirmed, runs, fin, cron, claims, hist,
                   tee, legacy>>

\* for (let i = 0; i < retries; i++) { ... }  throw new Error("Unreachable")
GetAuthTokenWithRetryLoop(ok) ==
    /\ auth.pc = "loop"
    /\ auth' = IF auth.i < auth.retries THEN AuthTry(auth, ok)
               ELSE [auth EXCEPT !.pc = "unreachable"]
    /\ UNCHANGED <<place, creates, pda, session, now, pools, bets, chain, confirmed, runs, fin, cron, claims, hist,
                   tee, legacy>>

\* The function has returned or thrown to a caller other than placeBetOnTEE.
GetAuthTokenWithRetryDone ==
    /\ auth.pc \in {"returned", "thrown", "unreachable"}
    /\ auth.caller = "direct"
    /\ auth' = IdleAuth
    /\ UNCHANGED <<place, creates, pda, session, now, pools, bets, chain, confirmed, runs, fin, cron, claims, hist,
                   tee, legacy>>

\* ---------------------------------------- ContractService: the enclave operations
\* The operations that connect to the enclave endpoint.
EnclaveOps ==
    {"resolvePool", "batchCalculateWeights", "batchUndelegateBets", "undelegatePool"}

\* part_005 placeBetOnTEE: the catch around getAuthTokenWithRetry leaves
\* tokenString empty ('anonymous mode') and the bet is sent all the same.
PlaceBetOnTEERetry ==
    /\ auth.pc \in {"returned", "thrown", "unreachable"}
    /\ auth.caller = "placeBetOnTEE"
    /\ tee' = tee \cup {[op |-> "placeBet", token |-> auth.pc = "returned"]}
    /\ auth' = IdleAuth
    /\ UNCHANGED <<place, creates, pda, session, now, pools, bets, chain, confirmed, runs, fin, cron, claims, hist,
                   legacy>>

\* contract.service.ts placeBetOnTEE: the same catch around the SDK's getAuthToken.
PlaceBetOnTEE(authOk) ==
    /\ tee' = tee \cup {[op |-> "placeBet", token |-> authOk]}
    /\ UNCHANGED <<place, creates, pda, session, now, pools, bets, chain, confirmed, runs, fin, cron, claims, hist,
                   auth, legacy>>

\* contract.service.ts resolvePool, batchCalculateWeights, batchUndelegateBets,
\* undelegatePool: getAuthToken is awaited inside the method's try block; when it
\* throws the method rethrows and nothing is sent.
EnclaveOp(op, authOk) ==
    /\ tee' = IF authOk THEN tee \cup {[op |-> op, token |-> TRUE]} ELSE tee
    /\ session' = [token |-> IF authOk THEN "valid" ELSE session.token,
                   held |-> session.token = "valid", handshake |-> TRUE]
    /\ UNCHANGED <<place, creates, pda, now, pools, bets, chain, confirmed, runs, fin, cron, claims, hist,
                   auth, legacy>>

\* part_005 resolvePool, batchCalculateWeights, batchUndelegateBets, undelegatePool:
\* new Connection(this.teeEndpoint, ...), no token is asked for.
EnclaveOpNoAuth(op) ==
    /\ tee' = tee \cup {[op |-> op, token |-> FALSE]}
    /\ session' = [session EXCEPT !.held = session.token = "valid", !.handshake = FALSE]
    /\ UNCHANGED <<place, creates, pda, now, pools, bets, chain, confirmed, runs, fin, cron, claims, hist,
                   auth, legacy>>

\* The enclave's tokens are valid for a time.
TokenExpires ==
    /\ session.token = "valid"
    /\ session' = [session EXCEPT !.token = "expired"]
    /\ UNCHANGED <<place, creates, pda, now, pools, bets, chain, confirmed, runs, fin, cron, claims, hist,
                   auth, tee, legacy>>

\* ------------------------------------------- ContractService: the pool handle
SeedPool == "pool"    \* const SEED_POOL = Buffer.from('pool')
ByteBase == 256       \* a byte of a Buffer
PoolIdBytes == 8      \* new BN(poolId).toBuffer('le', 8)

\* The pool ids the handle is derived for: small ones and ones that need a
\* second and a third byte.
PdaPoolIds ==
    UNION {{k, ByteBase * k, ByteBase * ByteBase * k + k} : k \in 0..MaxPdaPoolId}

\* The instances of ContractService: the exported contractService and the one
\* placeBet constructs for its request.
Instances == {"contractService", "new ContractService()"}

\* The operations that derive the pool handle from their pool id.
PoolOps ==
    {"createPool", "initBet", "delegatePool", "resolvePool", "batchCalculateWeights",
     "batchUndelegateBets", "undelegatePool", "finalizeWeights", "claimReward", "getPool"}

\* BN.toBuffer('le', length): the number's bytes, the least significant first,
\* padded with zeros to the length.
RECURSIVE ToBufferLE(_, _)
ToBufferLE(n, length) ==
    IF length = 0 THEN <<>>
    ELSE <<n % ByteBase>> \o ToBufferLE(n \div ByteBase, length - 1)

\* this.authority = loadKeypair(): every instance reads the keypair of the file
\* env.AUTHORITY_KEYPAIR_PATH names.
Authority(instance) == "authority.publicKey"

\* A slip in the derivation: the pool id is written into a single byte.
GetPoolPDAOneByte(admin, poolId) == <<SeedPool, admin, <<poolId % ByteBase>>>>

\* getPoolPDA: findProgramAddressSync hashes the seeds with the program id, and
\* with a nonce it counts down until the result is off the curve.  The handle is
\* written as the seeds it is the hash of: two handles are equal when their seeds
\* are.
GetPoolPDA(admin, poolId) == <<SeedPool, admin, ToBufferLE(poolId, PoolIdBytes)>>

\* An operation of an instance is called for a pool id; its first statement is
\* const [pool] = this.getPoolPDA(this.authority.publicKey, poolId).
PoolOperation(op, instance, poolId) ==
    /\ pda' = [prev |-> pda.last,
               last |-> [op |-> op, instance |-> instance, poolId |-> poolId,
                         pool |-> GetPoolPDA(Authority(instance), poolId)]]
    /\ UNCHANGED <<place, creates, session, now, pools, bets, chain, confirmed, runs, fin, cron,
                   claims, hist, auth, tee, legacy>>

\* ------------------------------------------------- the build of part_002
\* Its PoolsController (part_002), PoolModel (part_010), cyphercastClient and
\* PoolFinalizationService (poolFinalization.service.ts).
Prices == 1..MaxPrice

\* part_010 PoolModel.create: the inserted row.
LegacyPoolCreate(targetPrice, endTime) ==
    [exists |-> TRUE, target_price |-> targetPrice, end_time |-> endTime,
     status |-> "active", final_price |-> 0]

\* part_010 PoolModel.close
LegacyPoolClose(row, finalPrice) ==
    [row EXCEPT !.status = "closed", !.final_price = finalPrice]

\* part_002 createPool: the end time must be in the future (400 otherwise); the row
\* is inserted before the ledger is asked.
LegacyCreatePoolInsert(targetPrice, endTime) ==
    /\ legacy.create.pc = "idle"
    /\ \E p \in PoolIds : ~legacy.pools[p].exists
    /\ IF endTime <= now
       THEN legacy' = [legacy EXCEPT !.create =
                          [IdleLegacy EXCEPT !.pc = "done",
                                             !.resp = "400 End time must be in the future"]]
       ELSE LET p == Min({x \in PoolIds : ~legacy.pools[x].exists})
            IN  legacy' = [legacy EXCEPT !.pools[p] = LegacyPoolCreate(targetPrice, endTime),
                                         !.create = [IdleLegacy EXCEPT !.pc = "chain",
                                                                       !.pool = p]]
    /\ UNCHANGED <<place, creates, pda, session, now, pools, bets, chain, confirmed, runs, fin, cron, claims, hist,
                   auth, tee>>

\* cyphercastClient.createPool is a placeholder: it logs its parameters and returns
\* a fixed signature, the ledger is not asked.  The handler answers 201.
LegacyCreatePoolChain ==
    /\ legacy.create.pc = "chain"
    /\ legacy' = [legacy EXCEPT !.create.pc = "done",
                                !.create.resp = "201 Pool created successfully"]
    /\ UNCHANGED <<place, creates, pda, session, now, pools, bets, chain, confirmed, runs, fin, cron, claims, hist,
                   auth, tee>>

\* The answer of a createPool request was sent.
LegacyCreatePoolDone ==
    /\ legacy.create.pc = "done"
    /\ legacy' = [legacy EXCEPT !.create = IdleLegacy]
    /\ UNCHANGED <<place, creates, pda, session, now, pools, bets, chain, confirmed, runs, fin, cron, claims, hist,
                   auth, tee>>

\* part_002 finalizePool / closePool: PoolModel.findById and the two checks.
LegacyFinalizePoolBegin(id) ==
    /\ legacy.fin.pc = "idle"
    /\ legacy' = [legacy EXCEPT !.fin =
           IF ~legacy.pools[id].exists
           THEN [IdleLegacy EXCEPT !.pc = "done", !.pool = id, !.resp = "404 Pool not found"]
           ELSE IF legacy.pools[id].status = "closed"
           THEN [IdleLegacy EXCEPT !.pc = "done", !.pool = id,
                                   !.resp = "400 Pool already finalized"]
           ELSE [IdleLegacy EXCEPT !.pc = "price", !.pool = id]]
    /\ UNCHANGED <<place, creates, pda, session, now, pools, bets, chain, confirmed, runs, fin, cron, claims, hist,
                   auth, tee>>

\* PoolFinalizationService.finalizePool: findById and its checks again, then
\* OracleService.getCurrentPrice, which answers a price or throws.
LegacyFinalizePoolPrice(priceOk, finalPrice) ==
    /\ legacy.fin.pc = "price"
    /\ legacy' = [legacy EXCEPT !.fin =
           IF legacy.pools[legacy.fin.pool].status = "closed" \/ ~priceOk
           THEN [@ EXCEPT !.pc = "done", !.resp = "500"]
           ELSE [@ EXCEPT !.pc = "close", !.finalPrice = finalPrice]]
    /\ UNCHANGED <<place, creates, pda, session, now, pools, bets, chain, confirmed, runs, fin, cron, claims, hist,
                   auth, tee>>

\* The route POST / of the predictions router with createPredictionSchema: a
\* prediction row of a pool.  Its handler is not among the files; the row is
\* taken to be inserted for an active pool only.
LegacyCreatePrediction(p, direction) ==
    /\ legacy.pools[p].exists
    /\ legacy.pools[p].status = "active"
    /\ \E b \in LegacyPredIds : ~legacy.preds[b].exists
    /\ LET b == Min({x \in LegacyPredIds : ~legacy.preds[x].exists})
       IN  legacy' = [legacy EXCEPT !.preds[b] =
               [LegacyNoPrediction EXCEPT !.exists = TRUE, !.pool_id = p,
                                          !.direction = direction,
                                          !.amount = LegacyAmount]]
    /\ UNCHANGED <<place, creates, pda, session, now, pools, bets, chain, confirmed, runs,
                   fin, cron, claims, hist, auth, tee>>

\* checkWinner
CheckWinner(direction, finalPrice, targetPrice) ==
    IF direction = "up" THEN finalPrice >= targetPrice ELSE finalPrice < targetPrice

\* The loop body of settlePredictions: reward = isWinner ? amount * 1.8 : 0 (in
\* tenths: amount * 18), status 'won' or 'lost'.
SettlePrediction(prediction, finalPrice, targetPrice) ==
    LET isWinner == CheckWinner(prediction.direction, finalPrice, targetPrice)
    IN  [prediction EXCEPT !.reward = IF isWinner THEN prediction.amount * 18 ELSE 0,
                           !.status = IF isWinner THEN "won" ELSE "lost"]

\* cyphercastClient.finalizePool (a placeholder as well) and PoolModel.close;
\* then settlePredictions reads the predictions of the pool.
LegacyFinalizePoolClose ==
    /\ legacy.fin.pc = "close"
    /\ legacy' = [legacy EXCEPT
           !.pools[legacy.fin.pool] = LegacyPoolClose(@, legacy.fin.finalPrice),
           !.fin.pc = "settle",
           !.fin.todo = {b \in LegacyPredIds : /\ legacy.preds[b].exists
                                               /\ legacy.preds[b].pool_id = legacy.fin.pool}]
    /\ UNCHANGED <<place, creates, pda, session, now, pools, bets, chain, confirmed, runs,
                   fin, cron, claims, hist, auth, tee>>

\* settlePredictions: PredictionModel.update of the next prediction, which the
\* store takes or fails (ok); the error goes up to the handler, which answers
\* with it.
LegacyFinalizePoolSettle(ok) ==
    /\ legacy.fin.pc = "settle"
    /\ legacy.fin.todo # {}
    /\ LET b == Min(legacy.fin.todo)
           p == legacy.fin.pool
       IN  legacy' =
               IF ok
               THEN [legacy EXCEPT
                       !.preds[b] = SettlePrediction(@, legacy.fin.finalPrice,
                                                     legacy.pools[p].target_price),
                       !.fin.todo = @ \ {b}]
               ELSE [legacy EXCEPT !.fin.pc = "done", !.fin.resp = "500"]
    /\ UNCHANGED <<place, creates, pda, session, now, pools, bets, chain, confirmed, runs,
                   fin, cron, claims, hist, auth, tee>>

\* The loop is through: the handler answers with the row.
LegacyFinalizePoolAnswer ==
    /\ legacy.fin.pc = "settle"
    /\ legacy.fin.todo = {}
    /\ legacy' = [legacy EXCEPT !.fin.pc = "done",
                                !.fin.resp = "200 Pool finalized successfully"]
    /\ UNCHANGED <<place, creates, pda, session, now, pools, bets, chain, confirmed, runs,
                   fin, cron, claims, hist, auth, tee>>

\* The answer of a finalizePool request was sent.
LegacyFinalizePoolDone ==
    /\ legacy.fin.pc = "done"
    /\ legacy' = [legacy EXCEPT !.fin = IdleLegacy]
    /\ UNCHANGED <<place, creates, pda, session, now, pools, bets, chain, confirmed, runs, fin, cron, claims, hist,
                   auth, tee>>

\* ------------------------------------------------------- the specification
\* What both builds of the controller share: the clock, createPool, the bets and
\* the pool finalization job.
Common ==
    \/ Tick
    \/ \E s, e \in Times, ledgerOk \in BOOLEAN : CreatePool(s, e, ledgerOk)
    \/ \E p \in PoolIds, w \in Depositors, k, fetched, stored \in BOOLEAN :
          PlaceBet(p, w, k, fetched, stored)
    \/ \E b \in BetIds : UpdateBetPrediction(b)
    \/ CronTick
    \/ \E ok \in BOOLEAN : ClosePoolRead(ok)
    \/ \E ok \in BOOLEAN : ClosePoolWrite(ok)
    \/ CronDone

\* ContractService.completePoolResolution and the handler's mirror update.
Resolution ==
    \/ \E r \in RunIds, ok \in BOOLEAN : CompletePoolResolutionStep(r, ok)
    \/ \E r \in RunIds : ResolvePoolUpdate(r)

\* The build with the controller of src/unnamed/part_000.
Next ==
    \/ Common
    \/ \E r \in RunIds, id \in PoolIds, o \in Outcomes \cup {Undefined} :
          ResolvePoolBegin(r, "part_000", id, o)
    \/ \E r \in RunIds : ResolvePoolPredictions(r)
    \/ Resolution
    \/ \E r \in RunIds, landed \in SUBSET BetIds : BatchUndelegateBetsTimeout(r, landed)
    \/ \E r \in RunIds : ResolvePoolUpdateBet(r)
    \/ \E id \in PoolIds : FinalizePoolBegin(id)
    \/ \E ok \in BOOLEAN : FinalizePoolSubmit(ok)
    \/ \E fetched \in BOOLEAN : FinalizePoolSync(fetched)
    \/ FinalizePoolStatus
    \/ FinalizePoolMark

Spec == Init /\ [][Next]_vars

\* The build with the controller of src/src/controllers/pools.controller.ts, whose
\* finalizePool writes nothing.
NextTs ==
    \/ Common
    \/ \E r \in RunIds, id \in PoolIds, o \in Outcomes \cup {Undefined} :
          ResolvePoolBegin(r, "pools.controller.ts", id, o)
    \/ Resolution

SpecTs == Init /\ [][NextTs]_vars

\* The bets' side of the part_000 build: one resolvePool request, the resolution
\* service of part_007 and the claims.
NextClaim ==
    \/ Tick
    \/ \E s, e \in Times, ledgerOk \in BOOLEAN : CreatePool(s, e, ledgerOk)
    \/ \E p \in PoolIds, w \in Depositors, fetched, stored \in BOOLEAN :
          PlaceBet(p, w, TRUE, fetched, stored)
    \/ \E b \in BetIds : UpdateBetPrediction(b)
    \/ \E id \in PoolIds, o \in Outcomes : ResolvePoolBegin(1, "part_000", id, o)
    \/ ResolvePoolPredictions(1)
    \/ \E ok \in BOOLEAN : CompletePoolResolutionStep(1, ok)
    \/ ResolvePoolUpdate(1)
    \/ ResolvePoolUpdateBet(1)
    \/ \E c \in ChainIds, o \in Outcomes : ResolvePoolComplete(c, o)
    \/ \E c \in ClaimIds, id \in BetIds, w \in Wallets, hasTx \in BOOLEAN,
           a \in 0..MaxReward : ClaimRewardBegin(c, id, w, hasTx, a)
    \/ \E c \in ClaimIds : ClaimRewardWrite(c)

SpecClaim == Init /\ [][NextClaim]_vars

\* getAuthTokenWithRetry and the operations ContractService sends to the enclave,
\* in its two versions (contract.service.ts and part_005).
NextTee ==
    \/ \E caller \in {"direct", "placeBetOnTEE"}, retries \in Retries :
          GetAuthTokenWithRetryCall(caller, retries)
    \/ \E ok \in BOOLEAN : GetAuthTokenWithRetryLoop(ok)
    \/ GetAuthTokenWithRetryDone
    \/ PlaceBetOnTEERetry
    \/ \E authOk \in BOOLEAN : PlaceBetOnTEE(authOk)
    \/ \E op \in EnclaveOps, authOk \in BOOLEAN : EnclaveOp(op, authOk)
    \/ \E op \in EnclaveOps : EnclaveOpNoAuth(op)

SpecTee == Init /\ [][NextTee]_vars

\* The enclave operations of a resolution and the session they run in.
NextSession ==
    \/ \E op \in EnclaveOps, authOk \in BOOLEAN : EnclaveOp(op, authOk)
    \/ \E op \in EnclaveOps : EnclaveOpNoAuth(op)
    \/ TokenExpires

SpecSession == Init /\ [][NextSession]_vars

\* The build of part_002.
NextLegacy ==
    \/ Tick
    \/ \E targetPrice \in Prices, endTime \in Times :
          LegacyCreatePoolInsert(targetPrice, endTime)
    \/ \E p \in PoolIds, direction \in {"up", "down"} : LegacyCreatePrediction(p, direction)
    \/ LegacyCreatePoolChain
    \/ LegacyCreatePoolDone
    \/ \E id \in PoolIds : LegacyFinalizePoolBegin(id)
    \/ \E priceOk \in BOOLEAN, finalPrice \in Prices : LegacyFinalizePoolPrice(priceOk, finalPrice)
    \/ LegacyFinalizePoolClose
    \/ \E ok \in BOOLEAN : LegacyFinalizePoolSettle(ok)
    \/ LegacyFinalizePoolAnswer
    \/ LegacyFinalizePoolDone

SpecLegacy == Init /\ [][NextLegacy]_vars

\* The reads that enrich an answer with on-chain data, next to the writes of
\* createPool and of a resolution.
NextRead ==
    \/ Tick
    \/ \E s, e \in Times, ledgerOk \in BOOLEAN : CreatePool(s, e, ledgerOk)
    \/ \E p \in PoolIds, w \in Depositors, k, fetched, stored \in BOOLEAN :
          PlaceBet(p, w, k, fetched, stored)
    \/ \E id \in PoolIds, fetched \in BOOLEAN : GetPoolById(id, fetched)
    \/ \E id \in PoolIds, o \in Outcomes : ResolvePoolBegin(1, "part_000", id, o)
    \/ ResolvePoolPredictions(1)
    \/ \E ok \in BOOLEAN : CompletePoolResolutionStep(1, ok)
    \/ ResolvePoolUpdate(1)
    \/ ResolvePoolUpdateBet(1)

SpecRead == Init /\ [][NextRead]_vars

\* The operations of ContractService on pools, as far as the handle they address.
NextPda ==
    \E op \in PoolOps, instance \in Instances, poolId \in PdaPoolIds :
        PoolOperation(op, instance, poolId)

SpecPda == Init /\ [][NextPda]_vars

\* createPool, every await a step: one request with every kind of body.
NextCreate ==
    \/ Tick
    \/ \E name \in BOOLEAN, startTime, endTime \in DateInputs,
          minPrediction, maxPrediction \in Predictions :
          CreatePoolBegin(1, name, startTime, endTime, minPrediction, maxPrediction)
    \/ \E ok \in BOOLEAN : CreatePoolFetch(1, ok)
    \/ \E ledgerOk \in BOOLEAN : CreatePoolSubmit(1, ledgerOk)
    \/ \E ok \in BOOLEAN : CreatePoolInsert(1, ok)

SpecCreate == Init /\ [][NextCreate]_vars

\* placeBet, every await a step, for the pools createPool made.
NextPlace ==
    \/ Tick
    \/ \E s, e \in Times, ledgerOk \in BOOLEAN : CreatePool(s, e, ledgerOk)
    \/ \E poolId \in 0..MaxCronPools, w \in Depositors, k \in BOOLEAN :
          PlaceBetBegin(poolId, w, k)
    \/ \E fetched, stored \in BOOLEAN : PlaceBetSync(fetched, stored)
    \/ \E ok \in BOOLEAN : PlaceBetInsert(ok)

\* The pool finalization job with more than one pool to look at.
CronPoolIds == 1..MaxCronPools

InitCron ==
    /\ now = 1
    /\ pools = [p \in CronPoolIds |-> NoPool]
    /\ bets = [b \in BetIds |-> NoBet]
    /\ chain = [c \in 0..(MaxCronPools - 1) |-> NoChain]
    /\ confirmed = [c \in 0..(MaxCronPools - 1) |-> {}]
    /\ runs = [r \in RunIds |-> IdleRun]
    /\ fin = IdleFin
    /\ cron = IdleCron
    /\ claims = [c \in ClaimIds |-> IdleClaim]
    /\ hist = [overlapped |-> [c \in 0..(MaxCronPools - 1) |-> FALSE],
               placeBet |-> [resp |-> "none", bet |-> 0, fetched |-> FALSE],
               getPoolById |-> [resp |-> "none", id |-> 0, fetched |-> FALSE,
                                is_resolved |-> FALSE]]
    /\ auth = IdleAuth
    /\ tee = {}
    /\ session = NoSession
    /\ pda = [prev |-> NoPda, last |-> NoPda]
    /\ creates = [q \in CreateIds |-> IdleCreate]
    /\ place = IdlePlace
    /\ legacy = [pools |-> [p \in PoolIds |-> LegacyNoPool],
                 preds |-> [b \in LegacyPredIds |-> LegacyNoPrediction],
                 create |-> IdleLegacy, fin |-> IdleLegacy]

SpecCron == InitCron /\ [][Common]_vars

SpecPlace == InitCron /\ [][NextPlace]_vars

\* createPool requests side by side: they may read the same value of the
\* protocol's pool counter.
NextCreateRace ==
    \/ \E q \in CreateIds, endTime \in Instants :
          CreatePoolBegin(q, TRUE, HalvesPerSec, endTime, 0, MaxPrediction)
    \/ \E q \in CreateIds, ok \in BOOLEAN : CreatePoolFetch(q, ok)
    \/ \E q \in CreateIds, ledgerOk \in BOOLEAN : CreatePoolSubmit(q, ledgerOk)
    \/ \E q \in CreateIds, ok \in BOOLEAN : CreatePoolInsert(q, ok)

SpecCreateRace == InitCron /\ [][NextCreateRace]_vars

\* ================================================================ properties
\* The order of the six external calls as the specification states it.
ClaimedOrder ==
    <<"delegatePool", "resolvePool", "batchCalculateWeights",
      "batchUndelegateBets", "undelegatePool", "finalizeWeights">>

\* The number of leading steps of the claimed order the pool has confirmed.
LastConfirmed(c) ==
    IF \A k \in 1..Len(ClaimedOrder) : ClaimedOrder[k] \in confirmed[c]
    THEN Len(ClaimedOrder)
    ELSE Min({k \in 1..Len(ClaimedOrder) : ClaimedOrder[k] \notin confirmed[c]}) - 1

\* C1: a pool's mirror status never moves to an earlier status of the declared
\* order active < resolved < settled < closed.
C1_StatusNeverRegresses ==
    [][\A p \in PoolIds :
          pools[p].exists =>
              Rank(PoolStatus, pools'[p].status) >= Rank(PoolStatus, pools[p].status)]_vars

\* C2: within one run the external calls are submitted in the claimed order, none
\* skipped and none twice, each only after the one before it was confirmed; a run
\* that answers with success has submitted all six.
C2_StepsInOrder ==
    \A r \in RunIds :
        /\ Len(runs[r].issued) <= Len(ClaimedOrder)
        /\ runs[r].issued = SubSeq(ClaimedOrder, 1, Len(runs[r].issued))
        /\ runs[r].acks = Len(runs[r].issued) - (IF runs[r].rejected # 0 THEN 1 ELSE 0)
        /\ runs[r].resp = "200 Pool resolved successfully"
               => runs[r].issued = ClaimedOrder /\ runs[r].acks = Len(ClaimedOrder)

\* C2's case: a run has submitted all six calls and answered with success.
C2_Witness ==
    \E r \in RunIds :
        /\ runs[r].resp = "200 Pool resolved successfully"
        /\ Len(runs[r].issued) = 6

\* C3: when the runs of a pool never overlapped, no run submits a step that the
\* ledger or the enclave has already confirmed for the pool.
C3_NoResubmitOfConfirmedStep ==
    [][\A r \in RunIds :
          (/\ Len(runs'[r].issued) > Len(runs[r].issued)
           /\ ~hist.overlapped[runs[r].poolId])
          => runs'[r].issued[Len(runs'[r].issued)] \notin confirmed[runs[r].poolId]]_vars

\* C4: when the runs of a pool never overlapped and the pool's steps 1..k are
\* confirmed (1 <= k < 6), the first call a fresh run submits is step k+1.
C4_ResumesAfterLastConfirmedStep ==
    [][\A r \in RunIds :
          (/\ runs[r].issued = <<>>
           /\ runs'[r].issued # <<>>
           /\ ~hist.overlapped[runs[r].poolId]
           /\ LastConfirmed(runs[r].poolId) \in 1..5)
          => runs'[r].issued[1] = ClaimedOrder[LastConfirmed(runs[r].poolId) + 1]]_vars

\* C5: a run one of whose calls was rejected has answered with an error, has
\* submitted nothing after the rejected call and has written no mirror row.
C5_RejectionHalts ==
    \A r \in RunIds :
        runs[r].rejected # 0 =>
            /\ runs[r].pc = "done"
            /\ runs[r].resp = "500 Failed to resolve pool on-chain"
            /\ Len(runs[r].issued) = runs[r].rejected
            /\ runs[r].writes = 0

\* C5's case: the third call of a run was rejected.
C5_Witness == \E r \in RunIds : runs[r].rejected = 3

\* C6: a resolvePool request for a pool without a row, whose end time has not
\* passed or that is already resolved is answered with an error at once: it
\* submits nothing and writes nothing.
C6_PreconditionFailuresRejected ==
    [][\A r \in RunIds :
          (/\ runs[r].pc = "idle"
           /\ runs'[r].pc # "idle"
           /\ runs'[r].finalOutcome # Undefined
           /\ LET row == pools[runs'[r].pool]
              IN  ~row.exists \/ row.end_time > now \/ row.is_resolved)
          => /\ runs'[r].pc = "done"
             /\ runs'[r].resp \in {"404 Pool not found",
                                   "400 Pool end time has not been reached yet",
                                   "400 Pool already resolved"}
             /\ runs'[r].issued = <<>>
             /\ <<pools, bets, chain, confirmed>>' = <<pools, bets, chain, confirmed>>]_vars

C8_ClaimGuardedAtWrite ==
    [][\A c \in ClaimIds :
          (claims[c].pc = "write" /\ claims'[c].pc = "done")
          => bets[claims[c].bet].status = "calculated"]_vars

\* C9: the reward of a bet one of whose claims has succeeded never changes.
C9_RewardImmutableOnceClaimed ==
    [][\A b \in BetIds :
          (\E c \in ClaimIds : /\ claims[c].bet = b
                               /\ claims[c].resp = "200 Reward claimed successfully")
          => bets'[b].reward = bets[b].reward]_vars

\* C10: a request that arrived while another run of the same pool was between its
\* first and its last external call has been refused and has submitted nothing.
C10_OneRunInFlight ==
    \A r \in RunIds :
        runs[r].late => runs[r].issued = <<>> /\ runs[r].pc = "done"

\* C11: finalizeWeights is never submitted, by a resolution run or by finalizePool,
\* for a pool whose on-chain account already shows weightFinalized.
C11_FinalizeWeightsOnce ==
    [][/\ \A r \in RunIds :
            (/\ Len(runs'[r].issued) > Len(runs[r].issued)
             /\ runs'[r].issued[Len(runs'[r].issued)] = "finalizeWeights")
            => ~chain[runs[r].poolId].weightFinalized
       /\ (fin.pc = "submit" /\ fin'.pc # "submit")
            => ~chain[fin.poolId].weightFinalized]_vars

\* C12: in the mirror a pool with weight_finalized is resolved.
C12_FinalizedImpliesResolved ==
    \A p \in PoolIds : pools[p].weight_finalized => pools[p].is_resolved

\* C12's case: finalizePool went through and marked the pool's row.
C12_Witness ==
    /\ fin.resp = "200 Pool weights finalized"
    /\ pools[fin.pool].weight_finalized

\* C13: a bet's status becomes 'calculated' only when the on-chain account of its
\* pool shows weightFinalized.
C13_CalculatedOnlyAfterFinalize ==
    [][\A b \in BetIds :
          (/\ bets[b].exists
           /\ bets[b].status # "calculated"
           /\ bets'[b].status = "calculated")
          => chain[bets[b].pool_id].weightFinalized]_vars

\* C15: when a run answers with success the mirror row of its pool shows
\* weight_finalized, as the ledger does, in a status after 'resolved', and the
\* bets the run read are 'calculated'.
C15_CompletedRunLeavesPoolFinalized ==
    [][\A r \in RunIds :
          (/\ runs[r].resp # "200 Pool resolved successfully"
           /\ runs'[r].resp = "200 Pool resolved successfully")
          => /\ pools'[runs[r].pool].weight_finalized = chain'[runs[r].poolId].weightFinalized
             /\ pools'[runs[r].pool].status \in {"settled", "closed"}
             /\ \A b \in runs[r].preds : bets'[b].status = "calculated"]_vars

\* C16: a run halts on a failed call only after it has submitted that call more
\* than once.
C16_FailedCallRetried ==
    \A r \in RunIds :
        runs[r].rejected # 0 =>
            Cardinality({k \in 1..Len(runs[r].issued) :
                            runs[r].issued[k] = runs[r].issued[runs[r].rejected]}) > 1

\* C19: every confirmation a run got is on record in the mirror before its next
\* call: a run has written the mirror at least as often as it was confirmed.
C19_ConfirmationsRecorded ==
    \A r \in RunIds : runs[r].writes >= runs[r].acks

\* C20: delegatePool is not submitted for a pool whose account is owned by the
\* enclave validator.
C20_NoDelegateWhenDelegated ==
    [][\A r \in RunIds :
          (/\ Len(runs'[r].issued) > Len(runs[r].issued)
           /\ runs'[r].issued[Len(runs'[r].issued)] = "delegatePool")
          => ~chain[runs[r].poolId].delegated]_vars

\* C14: a pool row exists in the mirror only when the ledger confirmed the
\* creation of its pool: a row of the current build carries the id of an existing
\* on-chain account, and the part_002 build has no more rows than the ledger has
\* pool accounts.
C14_RowOnlyAfterLedgerConfirmed ==
    /\ \A p \in PoolIds :
          pools[p].exists =>
              pools[p].pool_id \in ChainIds /\ chain[pools[p].pool_id].exists
    /\ Cardinality({p \in PoolIds : legacy.pools[p].exists}) <= TotalPools

\* C17: getAuthTokenWithRetry makes at most retries attempts, returns at its first
\* successful attempt, throws the error of the last attempt when all of them
\* failed, sleeps a strictly increasing delay between two attempts, and with
\* retries >= 1 never gets to the throw after the loop.
C17_AuthRetryBounded ==
    /\ auth.attempts <= auth.retries
    /\ auth.pc = "returned" => auth.attempts = auth.i + 1
    /\ auth.pc = "thrown" => auth.attempts = auth.retries
    /\ auth.pc = "loop" => auth.attempts = auth.i
    /\ Len(auth.delays) = auth.i
    /\ \A k \in 1..Len(auth.delays) :
          /\ auth.delays[k] > 0
          /\ k > 1 => auth.delays[k] > auth.delays[k - 1]
    /\ auth.retries >= 1 => auth.pc # "unreachable"

\* C17's case: with the default retries every attempt failed; the third one's
\* error was thrown after delays of one and two seconds.
C17_Witness ==
    /\ auth.pc = "thrown"
    /\ auth.retries = DefaultRetries
    /\ auth.attempts = 3
    /\ auth.delays = <<1000, 2000>>

\* C18: whatever was sent to the enclave endpoint had a session token attached.
C18_EnclaveNeedsToken == \A e \in tee : e.token

\* C21: after a run of a pool has failed in batchUndelegateBets, the next run of
\* the pool submits to batchUndelegateBets none of the bet handles whose accounts
\* are already back in the ledger's ownership.
C21_UndelegatesOnlyEnclaveOwned ==
    [][\A r \in RunIds :
          (/\ Len(runs'[r].issued) > Len(runs[r].issued)
           /\ runs'[r].issued[Len(runs'[r].issued)] = "batchUndelegateBets"
           /\ ~hist.overlapped[runs[r].poolId]
           /\ \E q \in RunIds \ {r} :
                 /\ runs[q].poolId = runs[r].poolId
                 /\ runs[q].rejected # 0
                 /\ runs[q].issued[runs[q].rejected] = "batchUndelegateBets")
          => BetPubkeys(r) \cap chain[runs[r].poolId].returned = {}]_vars

\* C23: a bet's status becomes 'calculated' only when its handle is not empty and
\* its on-chain account shows a computed weight.
C23_CalculatedOnlyWithWeight ==
    [][\A b \in BetIds :
          (/\ bets[b].exists
           /\ bets[b].status # "calculated"
           /\ bets'[b].status = "calculated")
          => /\ bets[b].bet_pubkey
             /\ chain[bets[b].pool_id].weight[b] > 0]_vars

C26_ClaimLeavesReward ==
    [][\A c \in ClaimIds :
          (claims[c].pc = "write" /\ claims'[c].pc = "done")
          => /\ bets'[claims[c].bet].status = "claimed"
             /\ bets'[claims[c].bet].claim_tx = claims[c].claimTxSignature
             /\ bets'[claims[c].bet].reward = bets[claims[c].bet].reward]_vars

\* C27: in the mirror the calculated_weight of the bets of a pool with
\* weight_finalized add up to the pool's total_weight.
C27_WeightsAddUp ==
    \A p \in PoolIds :
        (pools[p].exists /\ pools[p].weight_finalized)
        => Sum([b \in BetIds |-> bets[b].calculated_weight], BetsOfPool(pools[p].pool_id))
              = pools[p].total_weight

\* C28: while the job's processing of one expired pool waits for the store, the
\* processing of another pool of its list can start.
C28_PoolsProcessedIndependently ==
    (cron.pc = "close" /\ cron.todo # {}) => ENABLED (\E ok \in BOOLEAN : ClosePoolRead(ok))

\* C29: every pool row and every bet row of the mirror has its last_synced_at set
\* by the write that made it.
C29_RowsCarrySyncMarker ==
    /\ \A p \in PoolIds : pools[p].exists => pools[p].last_synced_at
    /\ \A b \in BetIds : bets[b].exists => bets[b].last_synced_at

\* C22: an enclave operation of a resolution that begins while the token an
\* earlier operation obtained is still valid uses that token: it asks for a new
\* one only when there is none or it has expired.
C22_SessionTokenReused == session.held => ~session.handshake

C32_BetStatusNeverRegresses ==
    [][\A b \in BetIds :
          bets[b].exists =>
              Rank(BetStatus, bets'[b].status) >= Rank(BetStatus, bets[b].status)]_vars

C34_EveryListedPoolAttemptedOnce ==
    /\ \A i, j \in 1..Len(cron.attempts) : cron.attempts[i] = cron.attempts[j] => i = j
    /\ {cron.attempts[i] : i \in 1..Len(cron.attempts)} = cron.listed \ cron.todo
    /\ cron.failed \subseteq {cron.attempts[i] : i \in 1..Len(cron.attempts)}
    /\ cron.pc # "idle" =>
          ENABLED (\/ \E ok \in BOOLEAN : ClosePoolRead(ok)
                   \/ \E ok \in BOOLEAN : ClosePoolWrite(ok)
                   \/ CronDone)

\* C34's case: a tick listed two pools, closePool threw for the first, and the
\* second was closed.
C34_Witness ==
    /\ cron.pc = "next" /\ cron.todo = {}
    /\ Cardinality(cron.listed) = 2
    /\ Len(cron.attempts) = 2
    /\ cron.attempts[1] \in cron.failed
    /\ pools[cron.attempts[2]].status = "closed"

\* C35: the job changes the status of a pool only when the pool is 'active' and
\* its end time has passed.
C35_JobClosesOnlyActiveExpired ==
    [][(/\ cron.pc = "close"
        /\ cron'.pc # "close"
        /\ pools'[cron.pool].status # pools[cron.pool].status)
       => /\ pools[cron.pool].status = "active"
          /\ pools[cron.pool].end_time < now]_vars

\* C36: a createPool request that lacks name, startTime or endTime, or whose
\* timestamps do not satisfy start < end and end > now, or whose predictions do
\* not satisfy min < max, is answered with 400 when it arrives, before any await;
\* and a pool row, when it is inserted, has start_time < end_time, end_time > now
\* and min_prediction < max_prediction.
C36_CreatePoolValidated ==
    [][/\ \A q \in CreateIds :
            (/\ creates[q].pc = "idle"
             /\ creates'[q].pc # "idle"
             /\ LET c == creates'[q]
                    start == ToTimestamp(c.startTime)
                    end == ToTimestamp(c.endTime)
                IN  \/ ~c.name \/ c.startTime = Absent \/ c.endTime = Absent
                    \/ start = NaN \/ end = NaN
                    \/ ~(start < end) \/ ~(end > now)
                    \/ c.minPrediction = Undefined \/ c.maxPrediction = Undefined
                    \/ ~(c.minPrediction < c.maxPrediction))
            => /\ creates'[q].pc = "done"
               /\ creates'[q].resp \in
                     {"400 Missing required fields: name, startTime, endTime",
                      "400 Missing required fields: minPrediction, maxPrediction",
                      "400 minPrediction must be less than maxPrediction",
                      "400 Start time must be before end time",
                      "400 End time must be in the future"}
       /\ \A p \in DOMAIN pools :
            (~pools[p].exists /\ pools'[p].exists)
            => /\ pools'[p].start_time < pools'[p].end_time
               /\ pools'[p].end_time > now
               /\ pools'[p].min_prediction < pools'[p].max_prediction]_vars

\* C37: a placeBet request for a pool id without a row, or that arrives outside
\* the pool's window, is refused when it arrives; and a bet row, when it is
\* inserted, is that of a pool with a row and with start_time <= now <= end_time,
\* and has status 'initialized' and calculated_weight 0.
C37_BetOnlyInWindow ==
    [][/\ (/\ place.pc = "idle"
           /\ place'.pc # "idle"
           /\ \/ PoolsByPoolId(place'.poolId) = {}
              \/ \E p \in PoolsByPoolId(place'.poolId) :
                    now < pools[p].start_time \/ now > pools[p].end_time)
          => /\ place'.pc = "done"
             /\ place'.resp \in {"400 Missing required fields: poolId, userWallet, deposit",
                                 "404 Pool not found", "400 Pool is not in active period"}
       /\ \A b \in BetIds :
            (~bets[b].exists /\ bets'[b].exists)
            => /\ \E p \in PoolsByPoolId(bets'[b].pool_id) :
                     pools[p].start_time <= now /\ now <= pools[p].end_time
               /\ bets'[b].status = "initialized"
               /\ bets'[b].calculated_weight = 0]_vars

C39_ClosedPoolSettled ==
    \A p \in PoolIds :
        (/\ legacy.pools[p].status = "closed"
         /\ ~(legacy.fin.pc = "settle" /\ legacy.fin.pool = p))
        => \A b \in LegacyPredIds :
              (legacy.preds[b].exists /\ legacy.preds[b].pool_id = p)
              => legacy.preds[b].status \in {"won", "lost"}

====
